---- MODULE Spec2Model ----
(***************************************************************************)
(* Model of the authentication interceptors of openfga-rs:                 *)
(*   src/src/authentication/client_credentials.rs                          *)
(*     ClientCredentialInterceptor (new, new_initialized, refresh_token,   *)
(*     Interceptor::call) and get_token                                    *)
(*   src/src/authentication/bearer_token.rs                                *)
(*     BearerTokenInterceptor (new, Interceptor::call)                     *)
(*                                                                         *)
(* Every thread of the model owns one clone of the same interceptor: the   *)
(* clones share one Arc, hence one RwLock and one cached state.  Time is   *)
(* counted in seconds.  Strings that are formatted or parsed (tokens,      *)
(* header values) are sequences of byte codes.                             *)
(***************************************************************************)
EXTENDS Integers, Sequences, FiniteSets, TLC

\* ------------------------------------------------------------------ bounds
NumThreads == 2
MaxRetryBound == 2
MaxTicks == 3

Threads == 1..NumThreads

\* --------------------------------------------------------------- constants
\* client_credentials.rs:188  expires_in.unwrap_or(3600 - 60)
DefaultLifetime == 3600
SafetyMargin == 60

\* ----------------------------------------------------------------- options
None == [some |-> FALSE]
Some(x) == [some |-> TRUE, v |-> x]

\* ------------------------------------------------------- 64-bit quantities
\* expires_in is a u64, and the expiry computed from it a count of seconds
\* that may exceed the integers of the model checker: such a quantity is kept
\* as three limbs <<a, b, c>> standing for a * 10^18 + b * 10^9 + c, each limb
\* below 10^9.
Limb == 1000000000
Big(n) == <<(n \div Limb) \div Limb, (n \div Limb) % Limb, n % Limb>>
BigLess(x, y) ==
    \/ x[1] < y[1]
    \/ x[1] = y[1] /\ x[2] < y[2]
    \/ x[1] = y[1] /\ x[2] = y[2] /\ x[3] < y[3]
BigLeq(x, y) == x = y \/ BigLess(x, y)
BigAdd(x, y) ==
    LET c == x[3] + y[3]
        b == x[2] + y[2] + (c \div Limb)
        a == x[1] + y[1] + (b \div Limb) IN
    <<a, b % Limb, c % Limb>>
\* u64::MAX, i64::MAX
U64Max == <<18, 446744073, 709551615>>
I64Max == <<9, 223372036, 854775807>>
\* chrono::TimeDelta::MAX is i64::MAX milliseconds: 9223372036854775 whole seconds
DurationMaxSecs == <<0, 9223372, 36854775>>
\* chrono::DateTime::<Utc>::MAX_UTC, +262142-12-31T23:59:59, in seconds since
\* the Unix epoch
DateTimeMaxSecs == <<0, 8210, 266876799>>

\* ------------------------------------------------------------ byte strings
\* "Bearer "
BearerPrefix == <<66, 101, 97, 114, 101, 114, 32>>
\* "t1", "t\u{e9}" (UTF-8: the last two bytes are above 127) and "t\n" (the
\* last one cannot be a header value)
TokA == <<116, 49>>
TokB == <<116, 195, 169>>
TokBad == <<116, 10>>
Tokens == {TokA, TokB, TokBad}
\* "Basic x": a credential supplied by the caller
CallerAuth == <<66, 97, 115, 105, 99, 32, 120>>
\* response bodies of failed token requests: "a", "b"
BodyA == <<97>>
BodyB == <<98>>

\* format!("Bearer {token}")
FormatBearerNoSpace(token) == SubSeq(BearerPrefix, 1, 6) \o token
FormatBearer(token) == BearerPrefix \o token

\* http::HeaderValue::from_str, behind str::parse and MetadataValue::try_from:
\* every byte is 32 or above and not 127 (DEL), or a tab; the bytes from 128
\* on (obs-text, as in the UTF-8 of a non-ASCII char) are accepted
IsHeaderByte(b) == (b >= 32 /\ b # 127) \/ b = 9
ParseHeaderValue(bytes) ==
    IF \A i \in 1..Len(bytes) : IsHeaderByte(bytes[i]) THEN Some(bytes) ELSE None

\* ---------------------------------------------------------------- metadata
AUTHORIZATION == "authorization"
EmptyMetadata == [k \in {} |-> <<>>]
ContainsKey(md, k) == k \in DOMAIN md
Insert(md, k, val) == [x \in (DOMAIN md) \cup {k} |-> IF x = k THEN val ELSE md[x]]
RequestMetadatas == {EmptyMetadata, Insert(EmptyMetadata, AUTHORIZATION, CallerAuth)}

\* --------------------------------------------------------- form parameters
\* ClientCredentials.extra_oauth_params and the params map of get_token:
\* functions from parameter names to values.
EmptyParams == [k \in {} |-> ""]
\* HashMap::extend inserts every pair of `extra`, replacing the value of a key
\* that is already present
Extend(params, extra) ==
    [k \in (DOMAIN params) \cup (DOMAIN extra) |->
        IF k \in DOMAIN extra THEN extra[k] ELSE params[k]]
\* params.insert("grant_type", ..); params.insert("client_id", ..);
\* params.insert("client_secret", ..); params.extend(extra_oauth_params)
FormParams(creds) ==
    Extend(Insert(Insert(Insert(EmptyParams,
                                "grant_type", "client_credentials"),
                         "client_id", creds.client_id),
                  "client_secret", creds.client_secret),
           creds.extra_oauth_params)
\* the extra_oauth_params a caller may configure: none, an unreserved one,
\* and ones named like a reserved parameter
ExtraParamSets ==
    {EmptyParams,
     Insert(EmptyParams, "scope", "read"),
     Insert(Insert(EmptyParams, "scope", "read"), "client_id", "other"),
     Insert(EmptyParams, "grant_type", "password")}

\* ---------------------------------------------------------- token endpoint
\* TokenResponse: access_token and expires_in (token_type and issued_token_type
\* are never read)
TokenResponse(access_token, expires_in) ==
    [access_token |-> access_token, expires_in |-> expires_in]
ExpiresIns == {None, Some(Big(0)), Some(Big(DefaultLifetime))}
\* expires_in across the range of u64: 0, below the margin, 10^13, the
\* largest chrono::Duration, u64::MAX
WideExpiresIns ==
    {Some(Big(0)), Some(Big(SafetyMargin - 1)), Some(<<0, 10000, 0>>),
     Some(DurationMaxSecs), Some(U64Max)}

\* What one token request meets: no response at all (the transport failed), or
\* a response with a status, a body text, and the TokenResponse its body
\* deserializes to (None: the body is no TokenResponse).
TransportFailure == [kind |-> "transport"]
HttpResponse(status, text, json) ==
    [kind |-> "http", status |-> status, text |-> text, json |-> json]
\* "{}": a JSON body that is no TokenResponse (access_token is missing)
JsonText == <<123, 125>>

\* The decimal digits of a natural number, and of a limb below the leading one
RECURSIVE Digits(_)
Digits(n) == IF n < 10 THEN <<48 + n>> ELSE Digits(n \div 10) \o <<48 + (n % 10)>>
LimbDigits(n) == [i \in 1..(9 - Len(Digits(n))) |-> 48] \o Digits(n)
BigDigits(x) ==
    IF x[1] > 0 THEN Digits(x[1]) \o LimbDigits(x[2]) \o LimbDigits(x[3])
    ELSE IF x[2] > 0 THEN Digits(x[2]) \o LimbDigits(x[3])
    ELSE Digits(x[3])
\* A string as JSON text: between quotes, with quote and backslash escaped
\* and no control byte left raw (serde_json rejects a raw byte below 32 inside
\* a string): \b \t \n \f \r, and \u00XX for the others
HexDigit(n) == IF n < 10 THEN 48 + n ELSE 87 + n
JsonEscapeByte(b) ==
    IF b = 34 \/ b = 92 THEN <<92, b>>
    ELSE IF b = 8 THEN <<92, 98>>
    ELSE IF b = 9 THEN <<92, 116>>
    ELSE IF b = 10 THEN <<92, 110>>
    ELSE IF b = 12 THEN <<92, 102>>
    ELSE IF b = 13 THEN <<92, 114>>
    ELSE IF b < 32 THEN <<92, 117, 48, 48, HexDigit(b \div 16), HexDigit(b % 16)>>
    ELSE <<b>>
RECURSIVE JsonEscape(_)
JsonEscape(bytes) ==
    IF bytes = <<>> THEN <<>>
    ELSE JsonEscapeByte(Head(bytes)) \o JsonEscape(Tail(bytes))
JsonString(bytes) == <<34>> \o JsonEscape(bytes) \o <<34>>
\* A body that auth_response.json() deserializes to the TokenResponse r:
\* {"access_token":"..","token_type":"Bearer","expires_in":N}, the last member
\* left out when expires_in is None
TokenResponseText(r) ==
    <<123>>
    \o JsonString(<<97, 99, 99, 101, 115, 115, 95, 116, 111, 107, 101, 110>>)
    \o <<58>> \o JsonString(r.access_token) \o <<44>>
    \o JsonString(<<116, 111, 107, 101, 110, 95, 116, 121, 112, 101>>)
    \o <<58>> \o JsonString(<<66, 101, 97, 114, 101, 114>>)
    \o (IF r.expires_in.some
        THEN <<44>> \o JsonString(<<101, 120, 112, 105, 114, 101, 115, 95, 105, 110>>)
             \o <<58>> \o BigDigits(r.expires_in.v)
        ELSE <<>>)
    \o <<125>>
\* A response with status `status` whose body is the TokenResponse r
TokenHttpResponse(status, r) == HttpResponse(status, TokenResponseText(r), Some(r))

Outcomes ==
    {TransportFailure}
    \cup {TokenHttpResponse(200, TokenResponse(tok, e)) :
            tok \in Tokens, e \in ExpiresIns}
    \cup {HttpResponse(200, JsonText, None),
          TokenHttpResponse(299, TokenResponse(TokB, None)),
          HttpResponse(500, BodyA, None),
          HttpResponse(503, BodyB, None),
          HttpResponse(599, BodyB, None),
          HttpResponse(401, BodyA, None),
          HttpResponse(199, BodyB, None),
          HttpResponse(300, BodyB, None),
          HttpResponse(499, BodyB, None),
          HttpResponse(600, BodyB, None)}

\* ----------------------------------------------------------------- results
Ok(x) == [ok |-> TRUE, v |-> x]
Err(e) == [ok |-> FALSE, error |-> e]

\* CredentialRefreshError
InvalidConfiguration == [kind |-> "InvalidConfiguration"]
InvalidRequest == [kind |-> "InvalidRequest"]
NonRetryableError(code, body) == [kind |-> "NonRetryableError", code |-> code, body |-> body]
ServerError(code, body) == [kind |-> "ServerError", code |-> code, body |-> body]
ParseError == [kind |-> "ParseError"]
InvalidToken(token) == [kind |-> "InvalidToken", token |-> token]
RuntimeError == [kind |-> "RuntimeError"]
JoinError == [kind |-> "JoinError"]

\* ---------------------------------------------------------------- get_token
\* match auth_response.status().as_u16() { 500..=599 => .., 200..=299 => .., _ => .. }
IsClientOrServerErrorStatus(status) == status >= 400 /\ status <= 599
IsServerErrorStatus(status) == status >= 500 /\ status <= 599
IsSuccessStatus(status) == status >= 200 /\ status <= 299

\* if counter > *max_retry
RetriesExhaustedEarly(counter, max_retry) == counter >= max_retry
RetriesExhaustedLate(counter, max_retry) == counter > max_retry + 1
RetriesExhausted(counter, max_retry) == counter > max_retry

\* tokio::time::sleep(*retry_interval): the duration slept after a retryable error
SleepBackoff(counter, retry_interval) == retry_interval * counter
SleepDuration(counter, retry_interval) == retry_interval

\* One iteration of the loop of get_token after `counter += 1`, the request
\* having been built and sent: what the iteration does with the outcome.
\*   [next |-> "sleep"]                   sleep, then loop again
\*   [next |-> "return", result |-> r]    get_token returns r
HandleOutcomeRetryingTransport(counter, max_retry, outcome) ==
    IF outcome.kind = "transport" \/ IsServerErrorStatus(outcome.status)
    THEN IF RetriesExhausted(counter, max_retry)
         THEN [next |-> "return",
               result |-> IF outcome.kind = "transport" THEN Err(InvalidRequest)
                          ELSE Err(ServerError(outcome.status, outcome.text))]
         ELSE [next |-> "sleep"]
    ELSE IF IsSuccessStatus(outcome.status)
    THEN IF outcome.json.some
         THEN [next |-> "return", result |-> Ok(outcome.json.v)]
         ELSE [next |-> "return", result |-> Err(ParseError)]
    ELSE [next |-> "return",
          result |-> Err(NonRetryableError(outcome.status, outcome.text))]
HandleOutcome(counter, max_retry, outcome) ==
    IF outcome.kind = "transport"
    THEN [next |-> "return", result |-> Err(InvalidRequest)]
    ELSE IF IsServerErrorStatus(outcome.status)
    THEN IF RetriesExhausted(counter, max_retry)
         THEN [next |-> "return",
               result |-> Err(ServerError(outcome.status, outcome.text))]
         ELSE [next |-> "sleep"]
    ELSE IF IsSuccessStatus(outcome.status)
    THEN IF outcome.json.some
         THEN [next |-> "return", result |-> Ok(outcome.json.v)]
         ELSE [next |-> "return", result |-> Err(ParseError)]
    ELSE [next |-> "return",
          result |-> Err(NonRetryableError(outcome.status, outcome.text))]

\* ------------------------------------------------------------ refresh policy
\* i64::try_from(secs).unwrap_or(i64::MAX)
ClampToI64(secs) == IF BigLeq(secs, I64Max) THEN secs ELSE I64Max
\* chrono::Duration::new(secs, 0): None outside the range of TimeDelta
DurationNew(secs) == IF BigLeq(secs, DurationMaxSecs) THEN Some(secs) ELSE None
\* Duration::new(i64::try_from(expires_in.unwrap_or(3600 - 60)).unwrap_or(i64::MAX), 0)
\*     .unwrap_or(Duration::try_seconds(3600 - 60).unwrap())
ExpiresInSecondsNoMargin(expires_in) ==
    LET d == DurationNew(ClampToI64(IF expires_in.some THEN expires_in.v
                                    ELSE Big(DefaultLifetime))) IN
    IF d.some THEN d.v ELSE Big(DefaultLifetime)
ExpiresInSeconds(expires_in) ==
    LET d == DurationNew(ClampToI64(IF expires_in.some THEN expires_in.v
                                    ELSE Big(DefaultLifetime - SafetyMargin))) IN
    IF d.some THEN d.v ELSE Big(DefaultLifetime - SafetyMargin)
\* DateTime + TimeDelta is checked_add_signed(..).expect(..): None stands for
\* the panic "`DateTime + TimeDelta` overflowed"
CheckedAdd(time, dur) ==
    LET sum == BigAdd(time, dur) IN
    IF BigLeq(sum, DateTimeMaxSecs) THEN Some(sum) ELSE None
\* token_expiry: chrono::Utc::now() + <the duration above>, time being now in
\* seconds since the Unix epoch
TokenExpiry(time, expires_in) == CheckedAdd(Big(time), ExpiresInSeconds(expires_in))

\* ClientCredentialInterceptorState
CachedState(token, token_expiry) == [token |-> token, token_expiry |-> token_expiry]

\* if let Some(state) = &*state_read_guard { if token_expiry > &chrono::Utc::now()
Usable(state, time) == state.some /\ BigLess(Big(time), state.v.token_expiry)

\* metadata.insert(AUTHORIZATION, format!("Bearer {token}").parse().map_err(InvalidToken)?)
AttachBearer(md, token) ==
    LET parsed == ParseHeaderValue(FormatBearer(token)) IN
    IF parsed.some THEN Ok(Insert(md, AUTHORIZATION, parsed.v))
    ELSE Err(InvalidToken(token))

\* if !metadata.contains_key(AUTHORIZATION.as_str())
NeedsTokenAlways(md) == TRUE
NeedsToken(md) == ~ContainsKey(md, AUTHORIZATION)

\* BearerTokenInterceptor::new
BearerTokenNewRaw(token) == ParseHeaderValue(token)
BearerTokenNew(token) == ParseHeaderValue(FormatBearer(token))
\* BearerTokenInterceptor::call
BearerTokenCall(stored, md) ==
    IF NeedsToken(md) THEN Insert(md, AUTHORIZATION, stored) ELSE md

\* ------------------------------------------------------------------ RwLock
\* RwLock::read blocks while a writer holds the lock; RwLock::write blocks
\* while a writer or any reader holds it.
CanRead(w) == ~w.some
\* The read guards held once call has evaluated the cache: returning with the
\* cached token (or InvalidToken) drops the guard as it leaves the scope, and
\* the path to refresh_token drops it by drop(state_read_guard)
ReleaseReadOnReturnOnly(r, t, usable) == IF usable THEN r \ {t} ELSE r
ReleaseRead(r, t, usable) == r \ {t}
CanWriteIgnoringWriter(w, r) == r = {}
CanWrite(w, r) == ~w.some /\ r = {}

\* ------------------------------------------------------------------- state
VARIABLES
    credentials,     \* ClientCredentials: client_id, client_secret, extra_oauth_params,
                     \* and whether token_endpoint builds into a request
    refresh_config,  \* RefreshConfiguration: max_retry, retry_interval
    state,           \* inner.state: Option<ClientCredentialInterceptorState>
    writer,          \* the thread holding inner.state's write guard, if any
    readers,         \* the threads holding a read guard of inner.state
    poisoned,        \* inner.state is poisoned: a thread panicked holding its write guard
    bearer,          \* BearerTokenInterceptor.token
    now,             \* chrono::Utc::now(), in seconds since the Unix epoch
    ticks_left,      \* how often the clock may still advance
    callers,         \* the threads that hold a clone and issue calls
    constructed,     \* the ClientCredentialInterceptor exists for its callers: new has
                     \* built it, or new_initialized has returned Ok
    endpoint,        \* the outcomes a token request can meet
    last_fetch,      \* history: time and TokenResponse of the last published refresh
    pc,              \* per thread: where it is in call / refresh_token / get_token
    req,             \* per thread: the operation under way and the request given
    counter,         \* per thread: get_token's counter
    trace,           \* per thread, history: requests sent and sleeps of this operation
    response,        \* per thread: the response whose status the worker has seen and
                     \* whose body it is reading
    fetched,         \* per thread: what the joined worker returned
    res              \* per thread: what the last operation returned

vars == <<credentials, refresh_config, state, writer, readers, poisoned, bearer, now, ticks_left,
          callers, constructed, endpoint, last_fetch, pc, req, counter, trace, response,
          fetched, res>>

\* What never changes after construction
fixed == <<credentials, refresh_config, bearer, callers, endpoint>>

RetryIntervals == {2}
TickSteps == {1, DefaultLifetime - SafetyMargin - 1}

NoResult == [status |-> "none"]
\* the operation ended in a panic: it returned nothing
Panicked == [status |-> "panic"]
Returned(result, path) ==
    IF result.ok THEN [status |-> "ok", metadata |-> result.v, path |-> path]
    ELSE [status |-> "err", error |-> result.error, path |-> path]

\* a request sent to the token endpoint: its form body and what it met
\* (Pending while client.execute has not resolved)
Pending == [kind |-> "pending"]
ReqEvent(outcome) == [ev |-> "req", outcome |-> outcome, form |-> FormParams(credentials)]
SleepEvent(dur) == [ev |-> "sleep", dur |-> dur]

\* ClientCredentialInterceptor::new builds the interceptor with state None and
\* sends nothing; new_initialized calls refresh_token on it before returning it
\* (thread 1 is then inside refresh_token, about to take the write lock).
InitWith(cs, retries, ep, tb, extras) ==
    /\ callers = cs
    /\ endpoint = ep
    /\ ticks_left = tb
    /\ credentials \in [endpoint_ok : BOOLEAN, client_id : {"id"}, client_secret : {"secret"},
                        extra_oauth_params : extras]
    /\ refresh_config \in [max_retry : retries, retry_interval : RetryIntervals]
    /\ state = None
    /\ writer = None
    /\ readers = {}
    /\ poisoned = FALSE
    /\ bearer = BearerTokenNew(TokA).v
    /\ now = 0
    /\ last_fetch = None
    /\ \E ctor \in {"new", "new_initialized"} :
        /\ constructed = (ctor = "new")
        /\ pc = [t \in Threads |-> IF t = 1 /\ ctor = "new_initialized"
                                   THEN "want_write" ELSE "idle"]
        /\ req = [t \in Threads |-> IF t = 1 /\ ctor = "new_initialized"
                                    THEN [op |-> "init", metadata |-> EmptyMetadata]
                                    ELSE [op |-> "none", metadata |-> EmptyMetadata]]
    /\ counter = [t \in Threads |-> 0]
    /\ trace = [t \in Threads |-> <<>>]
    /\ response = [t \in Threads |-> None]
    /\ fetched = [t \in Threads |-> None]
    /\ res = [t \in Threads |-> NoResult]

\* The interceptor exists for its callers: new_initialized, if used, has returned Ok.
Constructed == constructed

\* ClientCredentialInterceptor::call on a request that carries Authorization:
\* the request is returned as it is.
Call_PassThrough(t, md) ==
    /\ t \in callers /\ pc[t] = "idle" /\ Constructed
    /\ ~NeedsToken(md)
    /\ req' = [req EXCEPT ![t] = [op |-> "call", metadata |-> md]]
    /\ res' = [res EXCEPT ![t] = Returned(Ok(md), "pass")]
    /\ trace' = [trace EXCEPT ![t] = <<>>]
    /\ counter' = [counter EXCEPT ![t] = 0]
    /\ fetched' = [fetched EXCEPT ![t] = None]
    /\ UNCHANGED <<fixed, constructed, poisoned, state, writer, readers, now, ticks_left, last_fetch, pc, response>>

\* ClientCredentialInterceptor::call on a request without Authorization: the
\* call goes on to self.inner.state.read().
Call_Begin(t, md) ==
    /\ t \in callers /\ pc[t] = "idle" /\ Constructed
    /\ NeedsToken(md)
    /\ req' = [req EXCEPT ![t] = [op |-> "call", metadata |-> md]]
    /\ res' = [res EXCEPT ![t] = NoResult]
    /\ trace' = [trace EXCEPT ![t] = <<>>]
    /\ counter' = [counter EXCEPT ![t] = 0]
    /\ fetched' = [fetched EXCEPT ![t] = None]
    /\ pc' = [pc EXCEPT ![t] = "read"]
    /\ UNCHANGED <<fixed, constructed, poisoned, state, writer, readers, now, ticks_left, last_fetch, response>>

\* let state_read_guard = self.inner.state.read().expect("poisoned lock"):
\* once the lock can be taken, read() returns Err if it is poisoned, and the
\* expect panics (the guard inside the error is dropped).
Call_AcquireRead(t) ==
    /\ pc[t] = "read"
    /\ CanRead(writer)
    /\ IF poisoned
       THEN /\ pc' = [pc EXCEPT ![t] = "panicked"]
            /\ res' = [res EXCEPT ![t] = Panicked]
            /\ UNCHANGED readers
       ELSE /\ readers' = readers \cup {t}
            /\ pc' = [pc EXCEPT ![t] = "reading"]
            /\ UNCHANGED res
    /\ UNCHANGED <<fixed, constructed, poisoned, state, writer, now, ticks_left, last_fetch, req, counter, trace, fetched, response>>

\* Under the read guard: a usable cached token is attached and the call
\* returns (Ok, or InvalidToken when the header value does not parse);
\* otherwise the guard is dropped and the call goes on to refresh_token.
Call_ReadCache(t) ==
    /\ pc[t] = "reading"
    /\ readers' = ReleaseRead(readers, t, Usable(state, now))
    /\ IF Usable(state, now)
       THEN /\ res' = [res EXCEPT ![t] =
                         Returned(AttachBearer(req[t].metadata, state.v.token), "cached")]
            /\ pc' = [pc EXCEPT ![t] = "idle"]
       ELSE /\ pc' = [pc EXCEPT ![t] = "want_write"]
            /\ UNCHANGED res
    /\ UNCHANGED <<fixed, constructed, poisoned, state, writer, now, ticks_left, last_fetch, req, counter, trace, fetched, response>>

\* refresh_token: let mut state_write_guard = self.inner.state.write().unwrap()
\* (a panic if the lock is poisoned), then the worker thread is spawned.
Refresh_AcquireWrite(t) ==
    /\ pc[t] = "want_write"
    /\ CanWrite(writer, readers)
    /\ IF poisoned
       THEN /\ pc' = [pc EXCEPT ![t] = "panicked"]
            /\ res' = [res EXCEPT ![t] = Panicked]
            /\ UNCHANGED <<writer, counter>>
       ELSE /\ writer' = Some(t)
            /\ counter' = [counter EXCEPT ![t] = 0]
            /\ pc' = [pc EXCEPT ![t] = "attempt"]
            /\ UNCHANGED res
    /\ UNCHANGED <<fixed, constructed, poisoned, state, readers, now, ticks_left, last_fetch, req, trace, fetched, response>>

\* std::thread::spawn cannot start the worker (the OS refuses the thread) and
\* panics in the calling thread, which holds the write guard: unwinding drops
\* the guard and poisons the lock; nothing was fetched and nothing is stored.
Refresh_SpawnPanic(t) ==
    /\ pc[t] = "attempt" /\ counter[t] = 0
    /\ writer' = None
    /\ poisoned' = TRUE
    /\ res' = [res EXCEPT ![t] = Panicked]
    /\ pc' = [pc EXCEPT ![t] = "panicked"]
    /\ UNCHANGED <<fixed, constructed, state, readers, now, ticks_left, last_fetch, req, counter, trace, response, fetched>>

\* The worker cannot build its runtime: RuntimeError, before any request.
Refresh_RuntimeError(t) ==
    /\ pc[t] = "attempt" /\ counter[t] = 0
    /\ fetched' = [fetched EXCEPT ![t] = Some(Err(RuntimeError))]
    /\ pc' = [pc EXCEPT ![t] = "join"]
    /\ UNCHANGED <<fixed, constructed, poisoned, state, writer, readers, now, ticks_left, last_fetch, req, counter, trace, res, response>>

\* The worker panics inside get_token: join() fails, mapped to JoinError.
GetToken_Panic(t) ==
    /\ pc[t] = "attempt"
    /\ fetched' = [fetched EXCEPT ![t] = Some(Err(JoinError))]
    /\ pc' = [pc EXCEPT ![t] = "join"]
    /\ UNCHANGED <<fixed, constructed, poisoned, state, writer, readers, now, ticks_left, last_fetch, req, counter, trace, res, response>>

\* The first part of an iteration of get_token's loop: counter += 1 (a u32; the
\* retry budgets modelled keep it far from overflow), build the request
\* (InvalidConfiguration if it cannot be built: nothing is sent) and send it:
\* client.execute(auth_request) is awaited.
GetToken_Attempt(t) ==
    /\ pc[t] = "attempt"
    /\ counter' = [counter EXCEPT ![t] = counter[t] + 1]
    /\ IF ~credentials.endpoint_ok
       THEN /\ fetched' = [fetched EXCEPT ![t] = Some(Err(InvalidConfiguration))]
            /\ pc' = [pc EXCEPT ![t] = "join"]
            /\ UNCHANGED trace
       ELSE /\ trace' = [trace EXCEPT ![t] = Append(trace[t], ReqEvent(Pending))]
            /\ pc' = [pc EXCEPT ![t] = "awaiting"]
            /\ UNCHANGED fetched
    /\ UNCHANGED <<fixed, constructed, poisoned, state, writer, readers, now, ticks_left, last_fetch, req, response, res>>

\* client.execute(..).await resolves: the transport failed (InvalidRequest), or
\* a response arrived, and its status decides: a 5xx within the budget goes to
\* the sleep, anything else to the reading of the body.
GetToken_Response(t, outcome) ==
    /\ pc[t] = "awaiting"
    /\ trace' = [trace EXCEPT ![t][Len(trace[t])] = ReqEvent(outcome)]
    /\ LET h == HandleOutcome(counter[t], refresh_config.max_retry, outcome) IN
       IF h.next = "sleep"
       THEN /\ pc' = [pc EXCEPT ![t] = "sleep"]
            /\ UNCHANGED <<fetched, response>>
       ELSE IF outcome.kind = "transport"
       THEN /\ pc' = [pc EXCEPT ![t] = "join"]
            /\ fetched' = [fetched EXCEPT ![t] = Some(h.result)]
            /\ UNCHANGED response
       ELSE /\ pc' = [pc EXCEPT ![t] = "body"]
            /\ response' = [response EXCEPT ![t] = Some(outcome)]
            /\ UNCHANGED fetched
    /\ UNCHANGED <<fixed, constructed, poisoned, state, writer, readers, now, ticks_left, last_fetch, req, counter, res>>

\* auth_response.json().await or auth_response.text().await resolves, and
\* get_token returns: the TokenResponse, ParseError, or the error that carries
\* the status and the body text.
GetToken_Body(t) ==
    /\ pc[t] = "body"
    /\ fetched' = [fetched EXCEPT ![t] =
            Some(HandleOutcome(counter[t], refresh_config.max_retry, response[t].v).result)]
    /\ response' = [response EXCEPT ![t] = None]
    /\ pc' = [pc EXCEPT ![t] = "join"]
    /\ UNCHANGED <<fixed, constructed, poisoned, state, writer, readers, now, ticks_left, last_fetch, req, counter, trace, res>>

\* tokio::time::sleep(*retry_interval).await, then the loop starts over
GetToken_Sleep(t) ==
    /\ pc[t] = "sleep"
    /\ trace' = [trace EXCEPT ![t] = Append(trace[t],
                    SleepEvent(SleepDuration(counter[t], refresh_config.retry_interval)))]
    /\ pc' = [pc EXCEPT ![t] = "attempt"]
    /\ UNCHANGED <<fixed, constructed, poisoned, state, writer, readers, now, ticks_left, last_fetch, req, counter, fetched, res, response>>

\* What the rest of the operation returns once refresh_token has returned r:
\* new_initialized returns the interceptor, call attaches r's access_token.
AfterRefresh(request, r) ==
    IF ~r.ok THEN Err(r.error)
    ELSE IF request.op = "init" THEN Ok(EmptyMetadata)
    ELSE AttachBearer(request.metadata, r.v.access_token)

\* The computation of token_expiry panics: the worker returned a TokenResponse
\* and the addition to now overflows.
ExpiryPanics(time, r) == r.ok /\ ~TokenExpiry(time, r.v.expires_in).some

\* *state_write_guard = Some(ClientCredentialInterceptorState { .. }): the
\* assignment does not happen when refresh_token returned early or its right
\* side panicked
PublishedStateKeepingFirst(old, time, r) ==
    IF old.some THEN old
    ELSE IF r.ok /\ ~ExpiryPanics(time, r)
    THEN Some(CachedState(r.v.access_token, TokenExpiry(time, r.v.expires_in).v))
    ELSE old
PublishedStateOrNone(old, time, r) ==
    IF r.ok /\ ~ExpiryPanics(time, r)
    THEN Some(CachedState(r.v.access_token, TokenExpiry(time, r.v.expires_in).v))
    ELSE None
PublishedState(old, time, r) ==
    IF r.ok /\ ~ExpiryPanics(time, r)
    THEN Some(CachedState(r.v.access_token, TokenExpiry(time, r.v.expires_in).v))
    ELSE old

\* refresh_token after join(): an error returns at once (`?` drops the write
\* guard); a TokenResponse is published and the guard dropped, and
\* refresh_token returns to its caller.  A panic while computing the expiry
\* unwinds through the write guard, whose drop poisons the lock.
Refresh_Finish(t) ==
    /\ pc[t] = "join"
    /\ state' = PublishedState(state, now, fetched[t].v)
    /\ writer' = None
    /\ IF ExpiryPanics(now, fetched[t].v)
       THEN /\ poisoned' = TRUE
            /\ res' = [res EXCEPT ![t] = Panicked]
            /\ pc' = [pc EXCEPT ![t] = "panicked"]
            /\ UNCHANGED last_fetch
       ELSE /\ last_fetch' = IF fetched[t].v.ok
                             THEN Some([at |-> now, response |-> fetched[t].v.v])
                             ELSE last_fetch
            /\ pc' = [pc EXCEPT ![t] = "refreshed"]
            /\ UNCHANGED <<poisoned, res>>
    /\ UNCHANGED <<fixed, constructed, readers, now, ticks_left, req, counter, trace, response, fetched>>

\* The caller of refresh_token goes on, holding no guard: new_initialized
\* returns the interceptor or the error, call formats and parses the header
\* value, inserts it and returns the request, or returns the error.
Call_AfterRefresh(t) ==
    /\ pc[t] = "refreshed"
    /\ res' = [res EXCEPT ![t] = Returned(AfterRefresh(req[t], fetched[t].v), "refreshed")]
    /\ constructed' = (constructed \/ (req[t].op = "init" /\ fetched[t].v.ok))
    /\ pc' = [pc EXCEPT ![t] = "idle"]
    /\ UNCHANGED <<fixed, poisoned, state, writer, readers, now, ticks_left, last_fetch, req, counter, trace, response, fetched>>

\* The thread that owns the BearerTokenInterceptor: it holds one immutable
\* value and shares nothing with the other interceptor
BearerCallers == {1}
\* BearerTokenInterceptor::call
Bearer_Call(t, md) ==
    /\ t \in BearerCallers /\ t \in callers /\ pc[t] = "idle"
    /\ req' = [req EXCEPT ![t] = [op |-> "bearer", metadata |-> md]]
    /\ res' = [res EXCEPT ![t] = Returned(Ok(BearerTokenCall(bearer, md)), "bearer")]
    /\ trace' = [trace EXCEPT ![t] = <<>>]
    /\ counter' = [counter EXCEPT ![t] = 0]
    /\ fetched' = [fetched EXCEPT ![t] = None]
    /\ UNCHANGED <<fixed, constructed, poisoned, state, writer, readers, now, ticks_left, last_fetch, pc, response>>

\* The clock advances.
Tick(d) ==
    /\ ticks_left > 0
    /\ now' = now + d
    /\ ticks_left' = ticks_left - 1
    /\ UNCHANGED <<fixed, constructed, poisoned, state, writer, readers, last_fetch, pc, req, counter, trace, fetched, res, response>>

Next ==
    \/ \E t \in Threads, md \in RequestMetadatas : Call_PassThrough(t, md)
    \/ \E t \in Threads, md \in RequestMetadatas : Call_Begin(t, md)
    \/ \E t \in Threads : Call_AcquireRead(t)
    \/ \E t \in Threads : Call_ReadCache(t)
    \/ \E t \in Threads : Refresh_AcquireWrite(t)
    \/ \E t \in Threads : Refresh_SpawnPanic(t)
    \/ \E t \in Threads : Refresh_RuntimeError(t)
    \/ \E t \in Threads : GetToken_Panic(t)
    \/ \E t \in Threads : GetToken_Attempt(t)
    \/ \E t \in Threads, outcome \in endpoint : GetToken_Response(t, outcome)
    \/ \E t \in Threads : GetToken_Body(t)
    \/ \E t \in Threads : GetToken_Sleep(t)
    \/ \E t \in Threads : Refresh_Finish(t)
    \/ \E t \in Threads : Call_AfterRefresh(t)
    \/ \E t \in Threads, md \in RequestMetadatas : Bearer_Call(t, md)
    \/ \E d \in TickSteps : Tick(d)

\* One caller, every outcome of the token endpoint, every retry budget.  The
\* lifetimes declared (ExpiresIns) keep the expiry in range: the lock is
\* poisoned here only when the worker cannot be spawned.
Init == InitWith({1}, 0..MaxRetryBound, Outcomes, MaxTicks, {EmptyParams})
Spec == Init /\ [][Next]_vars

\* Every thread calls through its clone; the endpoint issues two tokens, one
\* expired at once and one lasting or expired at once, or one that is no
\* header value, or fails.
ConcOutcomes ==
    {TokenHttpResponse(200, TokenResponse(TokB, e)) : e \in {None, Some(Big(0))}}
    \cup {TokenHttpResponse(200, TokenResponse(TokA, Some(Big(0)))),
          TokenHttpResponse(200, TokenResponse(TokBad, None)),
          HttpResponse(503, BodyB, None)}
InitConc == InitWith(Threads, {1}, ConcOutcomes, 1, {EmptyParams})
SpecConc == InitConc /\ [][Next]_vars

\* Every thread calls through its clone; the endpoint issues one token with
\* expires_in across the range of u64, or fails.
ExpiryOutcomes ==
    {TokenHttpResponse(200, TokenResponse(TokA, e)) : e \in WideExpiresIns}
    \cup {HttpResponse(503, BodyB, None)}
InitExpiry == InitWith(Threads, {1}, ExpiryOutcomes, 1, {EmptyParams})
SpecExpiry == InitExpiry /\ [][Next]_vars

\* The same under fair scheduling.  Every thread that can take a step of its
\* own keeps running (the caller's thread, and the worker it spawned, which
\* the endpoint answers: each attempt ends, as does each sleep), and the lock
\* is fair: a thread that could take it again and again does take it.
Fairness ==
    \A t \in Threads :
        /\ WF_vars(Call_ReadCache(t))
        /\ WF_vars(Refresh_SpawnPanic(t) \/ Refresh_RuntimeError(t) \/ GetToken_Panic(t)
                    \/ GetToken_Attempt(t))
        /\ WF_vars(\E outcome \in endpoint : GetToken_Response(t, outcome))
        /\ WF_vars(GetToken_Body(t))
        /\ WF_vars(GetToken_Sleep(t))
        /\ WF_vars(Refresh_Finish(t))
        /\ WF_vars(Call_AfterRefresh(t))
        /\ SF_vars(Call_AcquireRead(t))
        /\ SF_vars(Refresh_AcquireWrite(t))
SpecExpiryFair == InitExpiry /\ [][Next]_vars /\ Fairness

\* One caller, one retry, and every configuration of extra_oauth_params.
InitForm == InitWith({1}, {1}, ConcOutcomes, 1, ExtraParamSets)
SpecForm == InitForm /\ [][Next]_vars

\* ================================================================== claims
HasAuthorization(md) == AUTHORIZATION \in DOMAIN md
Refreshing(t) == pc[t] \in {"attempt", "awaiting", "body", "sleep", "join"}
Completed(t) == pc[t] = "idle" /\ res[t].status # "none"
IsReq(e) == e.ev = "req"
IsHttp(e) == e.ev = "req" /\ e.outcome.kind = "http"
Is5xx(e) == IsHttp(e) /\ e.outcome.status \in 500..599
Is2xx(e) == IsHttp(e) /\ e.outcome.status \in 200..299
IsOther(e) == IsHttp(e) /\ e.outcome.status \notin (200..299) \cup (500..599)
\* Thread t's get_token has seen the status of its last response and ends
\* with r: it is reading the body, or has returned r
EndsWith(t, r) ==
    /\ pc[t] \in {"body", "join", "refreshed", "idle"}
    /\ pc[t] = "body" => response[t].some
    /\ pc[t] # "body" => fetched[t] = Some(r)
ReqCount(tr) == Cardinality({i \in DOMAIN tr : IsReq(tr[i])})
SleepCount(tr) == Cardinality({i \in DOMAIN tr : tr[i].ev = "sleep"})

\* What a call on a request that carries Authorization has returned
C1_CompletedPassThrough ==
    \A t \in Threads :
        (Completed(t) /\ req[t].op \in {"call", "bearer"} /\ HasAuthorization(req[t].metadata))
        => /\ res[t].status = "ok"
           /\ res[t].metadata = req[t].metadata
           /\ res[t].metadata[AUTHORIZATION] = CallerAuth
           /\ res[t].path \in {"pass", "bearer"}
           /\ trace[t] = <<>>
\* A step of thread t on a request that carries Authorization
C1_PassThroughStep(t) ==
    /\ HasAuthorization(req'[t].metadata)
    /\ req'[t].op \in {"call", "bearer"}
    /\ <<req[t], res[t], pc[t]>> # <<req'[t], res'[t], pc'[t]>>
\* C1. A call (of either interceptor) on a request that carries Authorization
\* returns Ok with the very same Authorization value, and the step that serves
\* it sends no token request, takes no lock and leaves the cached state as it was.
C1_AuthorizationPassThrough ==
    /\ []C1_CompletedPassThrough
    /\ [][\A t \in Threads :
            C1_PassThroughStep(t)
            => /\ state' = state
               /\ writer' = writer /\ readers' = readers
               /\ pc' = pc
               /\ \A u \in Threads : ReqCount(trace'[u]) <= ReqCount(trace[u])]_vars
\* a pass-through served while the cache holds an expired token
C1_Witness ==
    /\ res[1].status = "ok" /\ res[1].path = "pass"
    /\ state.some /\ ~Usable(state, now)

\* Thread t's operation sent a request answered 2xx with a token that does
\* not expire at once
C2_GotLastingToken(t) ==
    \E i \in DOMAIN trace[t] :
        /\ Is2xx(trace[t][i]) /\ trace[t][i].outcome.json.some
        /\ trace[t][i].outcome.json.v.expires_in # Some(<<0, 0, 0>>)
\* C2. Single flight: with the clock standing still, two callers never both
\* obtain a lasting token from the token endpoint, since the second would have
\* found the first one's token in the cache (one request in total).
C2_SingleFlight ==
    now = 0 =>
        \A t, u \in Threads : t # u => ~(C2_GotLastingToken(t) /\ C2_GotLastingToken(u))

\* C3. At most one refresh is in flight, and the thread running it holds the
\* write lock from before the worker starts until it publishes or fails.
C3_OneRefreshInFlight ==
    /\ Cardinality({t \in Threads : Refreshing(t)}) <= 1
    /\ \A t \in Threads : Refreshing(t) => (writer = Some(t) /\ readers = {})
\* one thread sleeps between two attempts while another waits for the write lock
C3_Witness ==
    \E t, u \in Threads : t # u /\ pc[t] = "sleep" /\ pc[u] = "want_write"

\* C4. The cached expiry of a token whose response declared expires_in = E
\* (E at least the margin of 60 s and below 10^9 s, as for E = 3600) is
\* fetch-time + (E - 60).
C4_ExpiryMinusMargin ==
    (state.some /\ last_fetch.some /\ last_fetch.v.response.expires_in.some
        /\ last_fetch.v.response.expires_in.v[1] = 0
        /\ last_fetch.v.response.expires_in.v[2] = 0
        /\ last_fetch.v.response.expires_in.v[3] >= 60)
    => state.v.token_expiry
        = <<0, 0, last_fetch.v.at + (last_fetch.v.response.expires_in.v[3] - 60)>>

\* C5. The cached expiry of a token whose response omitted expires_in is
\* fetch-time + 3540.
C5_DefaultExpiry ==
    (state.some /\ last_fetch.some /\ ~last_fetch.v.response.expires_in.some)
    => state.v.token_expiry = <<0, 0, last_fetch.v.at + 3540>>
\* such a token is cached, fetched after the clock had advanced
C5_Witness ==
    /\ state.some /\ last_fetch.some /\ ~last_fetch.v.response.expires_in.some
    /\ last_fetch.v.at > 0
    /\ state.v.token = last_fetch.v.response.access_token

\* The step in which thread t evaluates the cache under its read guard
C6_ReadStep(t) == pc[t] = "reading" /\ pc'[t] # "reading"
\* C6. On a request without Authorization, the step that reads the cache
\* attaches the cached token (sending nothing) exactly when a cached state is
\* present with its expiry strictly after now, and goes on to refresh otherwise.
C6_UsableIffAttached ==
    [][\A t \in Threads :
        C6_ReadStep(t)
        => IF state.some /\ BigLess(<<0, 0, now>>, state.v.token_expiry)
           THEN /\ pc'[t] = "idle"
                /\ res'[t].status = "ok"
                /\ res'[t].metadata[AUTHORIZATION] = BearerPrefix \o state.v.token
                /\ trace'[t] = <<>>
           ELSE pc'[t] = "want_write"]_vars

\* Requests and sleeps alternate, starting with a request; every sleep lasts
\* retry_interval and follows a 5xx answer
C7_Alternates(tr) ==
    \A i \in DOMAIN tr :
        IF i % 2 = 1 THEN IsReq(tr[i])
        ELSE /\ tr[i] = [ev |-> "sleep", dur |-> refresh_config.retry_interval]
             /\ Is5xx(tr[i - 1])
\* C7. When the endpoint answers 5xx to the first k <= max_retry requests and
\* 2xx next, get_token sends k + 1 requests with one sleep of retry_interval
\* between consecutive requests (none before the first, none after the last),
\* and the call attaches the access_token of the successful response.
C7_RetryThenSuccess ==
    \A t \in Threads :
        LET tr == trace[t]
            n == Len(tr)
            k == ReqCount(tr) - 1 IN
        /\ C7_Alternates(tr)
        /\ (n > 0 /\ Is5xx(tr[n]) /\ ReqCount(tr) <= refresh_config.max_retry)
           => pc[t] = "sleep"
        /\ \A i \in DOMAIN tr :
            (Is2xx(tr[i]) /\ tr[i].outcome.json.some)
            => /\ i = n /\ k <= refresh_config.max_retry
               /\ SleepCount(tr) = k
               /\ EndsWith(t, Ok(tr[i].outcome.json.v))
               /\ (Completed(t) /\ req[t].op = "call" /\ res[t].status = "ok")
                  => res[t].metadata[AUTHORIZATION]
                        = BearerPrefix \o tr[i].outcome.json.v.access_token
               /\ (Completed(t) /\ req[t].op = "call"
                    /\ tr[i].outcome.json.v.access_token # TokBad)
                  => res[t].status = "ok"
\* a call that succeeded on the last attempt its budget of two retries allows
C7_Witness ==
    /\ refresh_config.max_retry = 2
    /\ Completed(1) /\ req[1].op = "call" /\ res[1].status = "ok"
    /\ Len(trace[1]) = 5
    /\ res[1].metadata[AUTHORIZATION] = BearerPrefix \o TokB

\* C8. When the endpoint answers 5xx to every request, get_token sends
\* max_retry + 1 requests with max_retry sleeps, none after the last request,
\* and fails with ServerError carrying the last response's status and body.
C8_ExhaustedRetries ==
    \A t \in Threads :
        LET tr == trace[t]
            n == Len(tr) IN
        /\ (fetched[t].some /\ ~fetched[t].v.ok /\ fetched[t].v.error.kind = "ServerError")
           => /\ ReqCount(tr) = refresh_config.max_retry + 1
              /\ SleepCount(tr) = refresh_config.max_retry
              /\ \A i \in DOMAIN tr : IsReq(tr[i]) => Is5xx(tr[i])
              /\ IsReq(tr[n])
              /\ fetched[t].v.error.code = tr[n].outcome.status
              /\ fetched[t].v.error.body = tr[n].outcome.text
        /\ ((\A i \in DOMAIN tr : IsReq(tr[i]) => Is5xx(tr[i]))
              /\ ReqCount(tr) >= refresh_config.max_retry + 1)
           => /\ ReqCount(tr) = refresh_config.max_retry + 1
              /\ IsReq(tr[n])
              /\ EndsWith(t, Err(ServerError(tr[n].outcome.status, tr[n].outcome.text)))
              /\ Completed(t) => (res[t].status = "err" /\ res[t].error = fetched[t].v.error)
\* three 5xx answers under max_retry = 2, the last one differing from the first
C8_Witness ==
    /\ refresh_config.max_retry = 2
    /\ Completed(1) /\ res[1].status = "err"
    /\ res[1].error = [kind |-> "ServerError", code |-> 599, body |-> BodyB]
    /\ ReqCount(trace[1]) = 3 /\ trace[1][1].outcome.status = 500

\* C9. A response whose status is outside 200-299 and 500-599 ends get_token
\* at once with NonRetryableError carrying its status and body, on whichever
\* attempt it arrives: no sleep and no request follows it.
C9_NonRetryable ==
    \A t \in Threads :
        LET tr == trace[t] IN
        /\ \A i \in DOMAIN tr :
            IsOther(tr[i])
            => /\ i = Len(tr)
               /\ EndsWith(t, Err([kind |-> "NonRetryableError",
                                   code |-> tr[i].outcome.status,
                                   body |-> tr[i].outcome.text]))
               /\ Completed(t) => (res[t].status = "err" /\ res[t].error = fetched[t].v.error)
        /\ (fetched[t].some /\ ~fetched[t].v.ok /\ fetched[t].v.error.kind = "NonRetryableError")
           => (tr # <<>> /\ IsOther(tr[Len(tr)]))
\* a 401 that arrives on the second attempt, after one retry
C9_Witness ==
    /\ Completed(1) /\ res[1].status = "err"
    /\ res[1].error = [kind |-> "NonRetryableError", code |-> 401, body |-> BodyA]
    /\ Len(trace[1]) = 3

\* Thread t's refresh_token has returned and t's operation goes on to return
\* an error: the refresh error, or InvalidToken for the token fetched
C10_Fails(t) == ~AfterRefresh(req[t], fetched[t].v).ok
\* C10. A call or new_initialized that fails leaves the cached state as it was
\* before: no step of an operation that returns an error changes the cache
\* (the cache is written in the step in which refresh_token returns).
C10_FailureLeavesCache ==
    [][\A t \in Threads :
        /\ (pc[t] = "refreshed" /\ pc'[t] = "idle")
           => /\ res'[t].status = "err" <=> C10_Fails(t)
              /\ state' = state
        /\ (pc[t] = "join" /\ pc'[t] = "refreshed" /\ C10_Fails(t))
           => state' = state
        /\ (pc[t] # "idle" /\ pc'[t] = "idle" /\ res'[t].status = "err")
           => state' = state]_vars

\* C11. Every form body sent to the token endpoint carries
\* grant_type=client_credentials and the configured client_id and
\* client_secret, whatever extra_oauth_params holds: an extra parameter named
\* like a reserved one does not replace the reserved value.
C11_ReservedParamsWin ==
    \A t \in Threads : \A i \in DOMAIN trace[t] :
        IsReq(trace[t][i])
        => /\ trace[t][i].form["grant_type"] = "client_credentials"
           /\ trace[t][i].form["client_id"] = credentials.client_id
           /\ trace[t][i].form["client_secret"] = credentials.client_secret

\* The step in which refresh_token returns to thread t's call, the cache still
\* being empty: the interceptor was built with new (new_initialized returns
\* none with an empty cache), and the call is its first or follows only
\* failed refreshes, which leave it as new built it
C12_FirstCallReturns(t) ==
    /\ state = None
    /\ pc[t] = "join" /\ pc'[t] = "refreshed" /\ req[t].op = "call"
\* C12 as stated: new sends no token request, and the first call on a request
\* without Authorization that obtains a token has sent exactly one.
C12_ExactlyOneRequest ==
    /\ []((\A t \in Threads : req[t].op = "none")
            => \A t \in Threads : trace[t] = <<>>)
    /\ [][\A t \in Threads :
            (C12_FirstCallReturns(t) /\ fetched[t].v.ok) => ReqCount(trace[t]) = 1]_vars
\* C12. new sends no token request and leaves the cache empty; the first call
\* on a request without Authorization finds no token and runs one refresh,
\* which sends one request plus one for every 5xx answer it retries: at most
\* max_retry + 1 requests, every one but the last answered 5xx and followed
\* by a sleep (unless the worker panics meanwhile), and none at all only when
\* the request cannot be built or the worker fails before sending.
C12_OneRefreshPerFirstCall ==
    /\ []((\A t \in Threads : req[t].op = "none")
            => /\ state = None /\ last_fetch = None
               /\ \A t \in Threads : trace[t] = <<>> /\ pc[t] = "idle")
    /\ [][\A t \in Threads :
            /\ (state = None /\ C6_ReadStep(t)) => pc'[t] = "want_write"
            /\ C12_FirstCallReturns(t)
               => LET tr == trace[t]
                      n == ReqCount(tr) IN
                  /\ n <= refresh_config.max_retry + 1
                  /\ SleepCount(tr) <= n
                  /\ fetched[t].v # Err(JoinError)
                     => SleepCount(tr) = (IF n = 0 THEN 0 ELSE n - 1)
                  /\ \A i \in DOMAIN tr : (IsReq(tr[i]) /\ i < Len(tr)) => Is5xx(tr[i])
                  /\ (tr # <<>> /\ ~Is5xx(tr[1])) => n = 1
                  /\ n = 0 => /\ ~fetched[t].v.ok
                              /\ fetched[t].v.error \in
                                    {InvalidConfiguration, RuntimeError, JoinError}
                  /\ trace'[t] = tr]_vars
\* the cache is still as new left it, and the first call has obtained a token
\* with its second request, the first having been answered 5xx
C12_Witness ==
    /\ state = None /\ last_fetch = None
    /\ req[1].op = "call" /\ pc[1] = "join"
    /\ fetched[1].some /\ fetched[1].v.ok
    /\ ReqCount(trace[1]) = 2 /\ Is5xx(trace[1][1])

\* Thread t's call has obtained, by its own refresh, a token every byte of
\* which may stand in a header value (a tab, or 32..255 without 127)
C13_Encodable(t) ==
    /\ req[t].op = "call" /\ fetched[t].v.ok
    /\ \A i \in DOMAIN fetched[t].v.v.access_token :
            fetched[t].v.v.access_token[i] \in ((32..255) \ {127}) \cup {9}
\* The step in which refresh_token returns that token to the call, and the
\* step in which the call returns
C13_RefreshReturns(t) == pc[t] = "join" /\ pc'[t] = "refreshed" /\ C13_Encodable(t)
C13_RefreshedCallReturns(t) == pc[t] = "refreshed" /\ pc'[t] = "idle" /\ C13_Encodable(t)
\* C13. A call that refreshes and is answered 2xx with an encodable
\* access_token T returns the request with exactly Authorization: Bearer T,
\* T being the token of the response to this call's own last request, and its
\* refresh has put T into the cache.
C13_RefreshAttachesOwnToken ==
    [][\A t \in Threads :
        LET tr == trace[t]
            T == fetched[t].v.v.access_token IN
        /\ C13_RefreshReturns(t)
           => /\ tr # <<>> /\ Is2xx(tr[Len(tr)])
              /\ tr[Len(tr)].outcome.json = Some(fetched[t].v.v)
              /\ state'.some /\ state'.v.token = T
        /\ C13_RefreshedCallReturns(t)
           => /\ tr # <<>> /\ Is2xx(tr[Len(tr)])
              /\ tr[Len(tr)].outcome.json = Some(fetched[t].v.v)
              /\ res'[t].status = "ok"
              /\ DOMAIN res'[t].metadata = {AUTHORIZATION}
              /\ res'[t].metadata[AUTHORIZATION] = BearerPrefix \o T]_vars
\* two calls refreshed one after the other and each returned with the token
\* of its own response; the cache holds the later one
C13_Witness ==
    \E t, u \in Threads :
        /\ t # u /\ Completed(t) /\ Completed(u)
        /\ req[t].op = "call" /\ req[u].op = "call"
        /\ res[t].path = "refreshed" /\ res[u].path = "refreshed"
        /\ res[t].status = "ok" /\ res[u].status = "ok"
        /\ res[t].metadata[AUTHORIZATION] = BearerPrefix \o TokA
        /\ res[u].metadata[AUTHORIZATION] = BearerPrefix \o TokB
        /\ state.some /\ state.v.token = TokB

\* new_initialized has returned in thread t
C14_Initialized(t) == req[t].op = "init" /\ Completed(t)
\* C14. new_initialized runs one refresh: if it fails, the error is returned
\* and no interceptor exists (no call is ever made); if it succeeds, the cache
\* is present, and a call that reads the cache before the cached expiry
\* attaches the cached token and sends no request.
C14_InitializedThenCached ==
    /\ [](\A t \in Threads :
            C14_Initialized(t)
            => /\ fetched[t].some
               /\ res[t].status = "err"
                  => /\ ~fetched[t].v.ok /\ res[t].error = fetched[t].v.error
                     /\ ~constructed
               /\ res[t].status = "ok" => (state.some /\ constructed))
    /\ [](~constructed => \A u \in Threads : req[u].op # "call")
    /\ [][\A t, u \in Threads :
            (C14_Initialized(t) /\ res[t].status = "ok" /\ C6_ReadStep(u)
                /\ BigLess(<<0, 0, now>>, state.v.token_expiry))
            => /\ pc'[u] = "idle"
               /\ res'[u].status = "ok"
               /\ res'[u].metadata[AUTHORIZATION] = BearerPrefix \o state.v.token
               /\ trace'[u] = <<>>]_vars

\* The latest refresh published was run through thread t's clone, which has
\* returned from it
C15_RefreshedLast(t) ==
    /\ pc[t] = "idle" /\ fetched[t].some /\ fetched[t].v.ok
    /\ last_fetch.some /\ last_fetch.v.response = fetched[t].v.v
\* C15. The clones share one cache: what a successful refresh through one
\* clone stored stays in the cache every clone reads (it is never copied or
\* reset), and a call through another clone that reads it before the cached
\* expiry attaches that same token and sends no request.
C15_ClonesShareCache ==
    /\ [](last_fetch.some
            => state.some /\ state.v.token = last_fetch.v.response.access_token)
    /\ [][\A t, u \in Threads :
            (t # u /\ C15_RefreshedLast(t) /\ C6_ReadStep(u)
                /\ BigLess(<<0, 0, now>>, state.v.token_expiry))
            => /\ pc'[u] = "idle"
               /\ res'[u].status = "ok"
               /\ res'[u].metadata[AUTHORIZATION]
                    = BearerPrefix \o fetched[t].v.v.access_token
               /\ trace'[u] = <<>>
               /\ state' = state]_vars

\* C16. BearerTokenInterceptor::call never fails and changes nothing it
\* holds: the stored value is "Bearer " followed by the token given to new
\* before and after every call, and a request without Authorization comes
\* back carrying exactly that value.
C16_BearerAttachesStoredToken ==
    /\ [](bearer = BearerPrefix \o TokA)
    /\ [](\A t \in Threads :
            (Completed(t) /\ req[t].op = "bearer")
            => /\ res[t].status = "ok"
               /\ ~HasAuthorization(req[t].metadata)
                  => /\ DOMAIN res[t].metadata = {AUTHORIZATION}
                     /\ res[t].metadata[AUTHORIZATION] = BearerPrefix \o TokA)
    /\ [][bearer' = bearer]_vars
\* a call of the bearer interceptor on a request without Authorization,
\* made after the clock has advanced
C16_Witness ==
    /\ Completed(1) /\ req[1].op = "bearer" /\ ~HasAuthorization(req[1].metadata)
    /\ res[1].metadata[AUTHORIZATION] = bearer
    /\ now > 0

\* A thread waiting for the lock waits for a thread that is on its way to
\* release it
C17_NoDeadlock ==
    \A t \in Threads :
        /\ pc[t] = "read" => (~writer.some \/ Refreshing(writer.v))
        /\ pc[t] = "want_write"
           => \/ ~writer.some /\ readers = {}
              \/ writer.some /\ Refreshing(writer.v)
              \/ \E u \in readers : pc[u] = "reading"
\* C17. Under a fair lock and an endpoint that answers every request, every
\* intercept call that has started returns, with a request or an error, and
\* no thread waits for the lock in vain.
C17_EveryCallReturns ==
    /\ []C17_NoDeadlock
    /\ \A t \in Threads :
        (req[t].op = "call" /\ pc[t] # "idle")
            ~> (pc[t] = "idle" /\ res[t].status \in {"ok", "err"})

\* The step in which refresh_token returns in thread t after its worker
\* panicked or could not build its runtime
C18_WorkerFailureReturns(t) ==
    /\ pc[t] = "join" /\ pc'[t] # "join"
    /\ fetched[t].v \in {Err(JoinError), Err(RuntimeError)}
\* C18. A worker that panics gives the caller JoinError, and one that cannot
\* build its runtime RuntimeError (before any request is sent); the caller
\* returns that error, the cache is as it was, and the lock is released and
\* not poisoned, so that a later call can read the cache and refresh anew.
C18_WorkerFailureLeavesLockClean ==
    /\ [](\A t \in Threads :
            fetched[t] = Some(Err(RuntimeError)) => trace[t] = <<>>)
    /\ [][\A t \in Threads :
            /\ C18_WorkerFailureReturns(t)
               => /\ pc'[t] = "refreshed"
                  /\ state' = state
                  /\ ~poisoned'
                  /\ writer' = None /\ readers' = {}
            /\ (pc[t] = "refreshed" /\ pc'[t] # "refreshed"
                  /\ fetched[t].v \in {Err(JoinError), Err(RuntimeError)})
               => /\ pc'[t] = "idle"
                  /\ res'[t].status = "err" /\ res'[t].error = fetched[t].v.error
                  /\ state' = state /\ poisoned' = poisoned]_vars
\* one clone's call failed with JoinError while a token was cached, and
\* another clone has since taken the write lock and started a refresh
C18_Witness ==
    \E t, u \in Threads :
        /\ t # u /\ Completed(t) /\ res[t].status = "err" /\ res[t].error = JoinError
        /\ state.some
        /\ pc[u] = "attempt" /\ writer = Some(u)

\* C19. Whatever expires_in the endpoint declares, the expiry computation
\* neither panics nor wraps: a refresh whose worker returned a TokenResponse
\* completes, releases the lock unpoisoned, and stores an expiry that is not
\* before the time of the fetch.
C19_ExpiryNeverPanics ==
    [][\A t \in Threads :
        (pc[t] = "join" /\ pc'[t] # "join" /\ fetched[t].v.ok)
        => /\ pc'[t] = "refreshed"
           /\ writer' = None /\ ~poisoned'
           /\ state'.some /\ state'.v.token = fetched[t].v.v.access_token
           /\ BigLeq(<<0, 0, now>>, state'.v.token_expiry)]_vars

\* a request that met a transport failure, and one answered 2xx with a body
\* that is no TokenResponse
C20_IsTransportFailure(e) == IsReq(e) /\ e.outcome.kind = "transport"
C20_IsUnparseable(e) == Is2xx(e) /\ ~e.outcome.json.some
\* thread t's get_token has ended with error err, which the operation returns
C20_EndedWith(t, err) ==
    /\ EndsWith(t, Err(err))
    /\ Completed(t) => (res[t].status = "err" /\ res[t].error = err)
\* C20. A transport failure ends get_token at once with InvalidRequest and an
\* unparseable 2xx body with ParseError, on whichever attempt they arrive and
\* whatever max_retry is: no sleep and no request follows.  A request that
\* cannot be built ends it with InvalidConfiguration before anything is sent.
C20_ImmediateErrors ==
    \A t \in Threads :
        LET tr == trace[t] IN
        /\ \A i \in DOMAIN tr :
            /\ C20_IsTransportFailure(tr[i])
               => (i = Len(tr) /\ C20_EndedWith(t, InvalidRequest))
            /\ C20_IsUnparseable(tr[i])
               => (i = Len(tr) /\ C20_EndedWith(t, ParseError))
        /\ ~credentials.endpoint_ok
           => /\ tr = <<>> /\ pc[t] # "sleep"
              /\ fetched[t].some
                 => fetched[t].v \in {Err(InvalidConfiguration), Err(RuntimeError),
                                      Err(JoinError)}
        /\ fetched[t] = Some(Err(InvalidConfiguration))
           => (tr = <<>> /\ ~credentials.endpoint_ok /\ counter[t] = 1)
        /\ fetched[t] = Some(Err(InvalidRequest))
           => (tr # <<>> /\ C20_IsTransportFailure(tr[Len(tr)]))
        /\ fetched[t] = Some(Err(ParseError))
           => (tr # <<>> /\ C20_IsUnparseable(tr[Len(tr)]))
\* with two retries allowed, the transport failed on the second attempt and
\* the call returned InvalidRequest without a third
C20_Witness ==
    /\ refresh_config.max_retry = 2
    /\ Completed(1) /\ res[1].status = "err" /\ res[1].error = InvalidRequest
    /\ Len(trace[1]) = 3 /\ Is5xx(trace[1][1])

\* The step in which refresh_token returns Ok in thread t
C21_RefreshSucceeds(t) ==
    /\ pc[t] = "join" /\ pc'[t] = "refreshed" /\ fetched[t].v.ok
\* C21. The cache is absent until a refresh succeeds; every successful
\* refresh writes it, in the one step in which it returns and under the write
\* lock, and nothing else changes it; once present it stays present; and it
\* always holds the token of the latest successful refresh.
C21_CacheLifecycle ==
    /\ [](IF last_fetch.some
          THEN state.some /\ state.v.token = last_fetch.v.response.access_token
          ELSE state = None)
    /\ [][/\ state.some => state'.some
          /\ \A t \in Threads :
                C21_RefreshSucceeds(t)
                => /\ writer = Some(t) /\ readers = {}
                   /\ state'.some /\ state'.v.token = fetched[t].v.v.access_token
                   /\ last_fetch' = Some([at |-> now, response |-> fetched[t].v.v])
          /\ (state' # state \/ last_fetch' # last_fetch)
             => \E t \in Threads : C21_RefreshSucceeds(t)]_vars
\* a second successful refresh has replaced the token of the first, which one
\* clone had attached, and the other clone's latest call has failed since
\* without touching it
C21_Witness ==
    \E t, u \in Threads :
        /\ t # u /\ Completed(t) /\ Completed(u)
        /\ req[t].op = "call" /\ res[t].path = "refreshed" /\ res[t].status = "ok"
        /\ res[t].metadata[AUTHORIZATION] = BearerPrefix \o TokA
        /\ res[u].path = "refreshed" /\ res[u].status = "err"
        /\ state.some /\ state.v.token = TokB
        /\ last_fetch.v.response.access_token = TokB

\* Thread t holds a guard of the lock
C22_HoldsRead(t) == t \in readers
C22_HoldsWrite(t) == writer = Some(t)
\* C22. A thread that is not inside call or new_initialized (it has returned,
\* by whichever path, or not yet called) holds neither guard, nor does one
\* to which refresh_token has returned; a thread holds the read guard only
\* between read() and its look at the cache, and holds none while it waits
\* for the write lock; the write guard is held only inside refresh_token.
C22_NoLockHeldOnReturn ==
    \A t \in Threads :
        /\ pc[t] = "idle" => (~C22_HoldsRead(t) /\ ~C22_HoldsWrite(t))
        /\ C22_HoldsRead(t) => pc[t] = "reading"
        /\ C22_HoldsWrite(t) => pc[t] \in {"attempt", "awaiting", "body", "sleep", "join"}
        /\ pc[t] \in {"want_write", "refreshed"} => (~C22_HoldsRead(t) /\ ~C22_HoldsWrite(t))
\* one clone has returned InvalidToken from the cached path and another has
\* returned a refresh error, while the lock is free
C22_Witness ==
    \E t, u \in Threads :
        /\ t # u /\ Completed(t) /\ Completed(u)
        /\ res[t].path = "cached" /\ res[t].status = "err"
        /\ res[u].path = "refreshed" /\ res[u].status = "err"
        /\ writer = None /\ readers = {}

====
